---- MODULE Spec2Model ----
(***************************************************************************)
(* Model of lioness-rs (src/src/lib.rs): the LIONESS wide-block cipher     *)
(* built from a stream cipher S and a MAC H.                                *)
(*                                                                         *)
(* The code is generic over S and H.  The model instantiates them with     *)
(* small deterministic keyed functions (Keystream, MacDigest) whose sizes  *)
(* (StreamKeySize, MacKeySize, MacOutputSize) are drawn from Prims, so     *)
(* that every size relation the code tests (O >= S, len > O, N > O) has    *)
(* both outcomes in the model.  Bytes are u8 and XOR is the bitwise one.   *)
(***************************************************************************)
EXTENDS Integers, Sequences, FiniteSets, TLC

VARIABLES
    prim,        \* sizes of the chosen primitives S and H (type parameters)
    key,         \* the master key handed to new()
    cipher,      \* the Lioness instance (k1..k4), or NoCipher
    newStatus,   \* outcome of Lioness::new: "none", "ok", "panic"
    adapter,     \* the BlockLioness instance (inner, N), or NoCipher
    adapterTry,  \* [N, status] of the BlockLioness::new attempt
    block,       \* block[t]: the caller-owned buffer of thread t
    status,      \* status[t]: "idle", "running", "panicked"
    pc,          \* pc[t]: next round (1..4) of the running call, else 0
    op,          \* op[t]: "enc" / "dec" of the running call
    via,         \* via[t]: "lioness" (direct) or "block" (through the adapter)
    orig,        \* orig[t]: the buffer as it was when the running call started
    trace,       \* trace[t]: rounds the running call has applied so far
    mixed,       \* mixed[t]: another thread ran a round during t's running call
    hist,        \* hist[t]: the completed calls of t, oldest first
    left,        \* round functions alone: the left half
    right,       \* round functions alone: the right half
    rlog         \* round functions alone: the applications so far, oldest first

vars == <<prim, key, cipher, newStatus, adapter, adapterTry, block, status, pc,
          op, via, orig, trace, mixed, hist, left, right, rlog>>

lionessVars == <<cipher, newStatus, adapter, adapterTry, block, status, pc,
                 op, via, orig, trace, mixed, hist>>

roundVars == <<left, right, rlog>>

----------------------------------------------------------------------------
(* Bounds of the model *)

\* longest caller buffer
MaxBlockLen == 3

\* calls one thread makes on its buffer
MaxCalls == 2

\* calls each of two concurrent threads makes on its buffer
MaxConcCalls == 1

\* applications of a round function when the two are run alone
MaxRounds == 4

\* width of u8
ByteBits == 8

ByteMod == 2 ^ ByteBits

\* bytes the caller buffers are filled with
BlockBytes == {0, 255}

\* master keys are key[i] = (a + b*i) mod 256: the all-zero key of the
\* repository's creation test and keys whose bytes all differ
KeyOffsets == {0, 16}

KeySteps == {0, 1}

\* (StreamKeySize S, MacKeySize M, MacOutputSize O, primitive seed)
Prims ==
    { [S |-> 1, M |-> 1, O |-> 1, seed |-> 3],
      [S |-> 1, M |-> 2, O |-> 2, seed |-> 5],
      [S |-> 2, M |-> 1, O |-> 1, seed |-> 7] }

NoCipher == [none |-> TRUE]

NoKey == <<>>

\* bytes the subkeys are filled with when the round functions are run alone
RoundKeyBytes == {1, 254}

----------------------------------------------------------------------------
(* Bytes *)

Min(a, b) == IF a <= b THEN a ELSE b

RECURSIVE XorBits(_, _, _)
XorBits(a, b, n) ==
    IF n = 0 THEN 0
    ELSE (((a % 2) + (b % 2)) % 2) + 2 * XorBits(a \div 2, b \div 2, n - 1)

\* u8 ^ u8
ByteXor(a, b) == XorBits(a, b, ByteBits)

\* variant of xor_in_place that iterates over copies: a is left as it was
xor_in_place_copy(a, b) == a

\* variant of xor_in_place: a[i] = a[i].wrapping_add(b[i])
add_in_place(a, b) ==
    [i \in 1..Len(a) |-> IF i <= Len(b) THEN (a[i] + b[i]) % ByteMod ELSE a[i]]

\* fn xor_in_place(a, b): a[i] ^= b[i] over the zipped prefix
xor_in_place(a, b) ==
    [i \in 1..Len(a) |-> IF i <= Len(b) THEN ByteXor(a[i], b[i]) ELSE a[i]]

Max(a, b) == IF a >= b THEN a ELSE b

\* variant of xor: as long as the longer argument, the excess copied
xor_longest(a, b) ==
    [i \in 1..Max(Len(a), Len(b)) |->
        IF i > Len(b) THEN a[i] ELSE IF i > Len(a) THEN b[i] ELSE ByteXor(a[i], b[i])]

\* fn xor(a, b): the zipped XOR, as long as the shorter argument
xor(a, b) == [i \in 1..Min(Len(a), Len(b)) |-> ByteXor(a[i], b[i])]

----------------------------------------------------------------------------
(* The primitives S and H the construction is generic over *)

RECURSIVE Absorb(_, _)
Absorb(bytes, h) ==
    IF bytes = <<>> THEN h
    ELSE Absorb(Tail(bytes), (h * 33 + Head(bytes) + 1) % ByteMod)

\* S::new(key, zero IV) followed by the first n keystream bytes
Keystream(p, k, n) ==
    [i \in 1..n |-> (Absorb(k, p.seed) * (2 * i + 1) + 7 * i) % ByteMod]

\* s.apply_keystream(data): XORs the keystream into data
apply_keystream(p, k, data) == xor_in_place(data, Keystream(p, k, Len(data)))

\* H::new(key); h.update(msg); h.finalize().into_bytes(): p.O bytes
MacDigest(p, k, msg) ==
    [j \in 1..p.O |-> (Absorb(msg, Absorb(k, p.seed + 64)) * (2 * j + 1) + 11 * j) % ByteMod]

----------------------------------------------------------------------------
(* The two round functions *)

\* left_xor_assign_digest: the new left half; right is only read
left_xor_assign_digest(p, l, r, digest_key) ==
    xor_in_place(l, MacDigest(p, digest_key, r))

\* let stream_key = xor(left, stream_key_half)
StreamKey(l, stream_key_half) == xor(l, stream_key_half)

\* GenericArray::from_exact_iter(stream_key).unwrap() panics unless the
\* derived key is exactly StreamKeySize long
StreamKeyPanics(p, l, stream_key_half) ==
    Len(StreamKey(l, stream_key_half)) # p.S

\* right_xor_assign_stream: the new right half; left is only read
right_xor_assign_stream(p, l, r, stream_key_half) ==
    apply_keystream(p, StreamKey(l, stream_key_half), r)

----------------------------------------------------------------------------
(* Lioness *)

\* block.split_at_mut(mid)
split_at_mut(b, mid) ==
    [left |-> SubSeq(b, 1, mid), right |-> SubSeq(b, mid + 1, Len(b))]

Join(h) == h.left \o h.right

\* variant of the length check: block.len() < H::OutputSize
InvalidBlockLengthStrict(p, b) == Len(b) < p.O

\* if block.len() <= H::OutputSize::to_usize() { return Err(InvalidBlockLength) }
InvalidBlockLength(p, b) == Len(b) <= p.O

\* variant of encrypt_block with k1 and k3 exchanged
EncRoundsKeysSwapped ==
    << [fn |-> "stream", key |-> "k3"],
       [fn |-> "digest", key |-> "k2"],
       [fn |-> "stream", key |-> "k1"],
       [fn |-> "digest", key |-> "k4"] >>

\* the four calls of encrypt_block, in program order
EncRounds ==
    << [fn |-> "stream", key |-> "k1"],
       [fn |-> "digest", key |-> "k2"],
       [fn |-> "stream", key |-> "k3"],
       [fn |-> "digest", key |-> "k4"] >>

\* variant of decrypt_block with k2 and k4 exchanged
DecRoundsKeysSwapped ==
    << [fn |-> "digest", key |-> "k2"],
       [fn |-> "stream", key |-> "k3"],
       [fn |-> "digest", key |-> "k4"],
       [fn |-> "stream", key |-> "k1"] >>

\* the four calls of decrypt_block, in program order
DecRounds ==
    << [fn |-> "digest", key |-> "k4"],
       [fn |-> "stream", key |-> "k3"],
       [fn |-> "digest", key |-> "k2"],
       [fn |-> "stream", key |-> "k1"] >>

Rounds(o) == IF o = "enc" THEN EncRounds ELSE DecRounds

RoundPanics(p, c, rd, h) ==
    rd.fn = "stream" /\ StreamKeyPanics(p, h.left, c[rd.key])

\* one of the four statements of encrypt_block / decrypt_block
ApplyRound(p, c, rd, h) ==
    IF rd.fn = "stream"
    THEN [left |-> h.left,
          right |-> right_xor_assign_stream(p, h.left, h.right, c[rd.key])]
    ELSE [left |-> left_xor_assign_digest(p, h.left, h.right, c[rd.key]),
          right |-> h.right]

\* variant in which the stream round XORs left into the subkey in place
SelfAfterRoundInPlace(c, rd, h) ==
    IF rd.fn = "stream"
    THEN [c EXCEPT ![rd.key] = xor_in_place(c[rd.key], h.left)]
    ELSE c

\* the subkeys after a round: both round functions take the subkey by shared
\* reference (&self.k1 ..) and xor() collects into a fresh Vec
SelfAfterRound(c, rd, h) == c

RECURSIVE RunRounds(_, _, _, _)
RunRounds(p, c, rds, h) ==
    IF rds = <<>> THEN h
    ELSE RunRounds(p, c, Tail(rds), ApplyRound(p, c, Head(rds), h))

\* a whole call of encrypt_block / decrypt_block that runs alone
Transform(p, c, o, b) ==
    IF InvalidBlockLength(p, b)
    THEN [result |-> "Err", block |-> b]
    ELSE [result |-> "Ok",
          block |-> Join(RunRounds(p, c, Rounds(o), split_at_mut(b, p.O)))]

\* type KeySize = Double<Sum<S::KeySize, H::KeySize>>
KeySize(p) == 2 * (p.S + p.M)

\* variant of the assertion with the operands exchanged
NewAssertReversed(p) == p.S >= p.O

\* assert!(H::OutputSize::to_usize() >= S::KeySize::to_usize())
NewAssertHolds(p) == p.O >= p.S

\* variant of the slicing: both stream keys first, then both MAC keys
LionessNewStreamFirst(p, k) ==
    LET sck == p.S
        hk == p.M
    IN [k1 |-> SubSeq(k, 1, sck),
        k2 |-> SubSeq(k, 2 * sck + 1, 2 * sck + hk),
        k3 |-> SubSeq(k, sck + 1, 2 * sck),
        k4 |-> SubSeq(k, 2 * sck + hk + 1, Len(k))]

\* the struct literal of Lioness::new
LionessNew(p, k) ==
    LET sck == p.S
        hk == p.M
    IN [k1 |-> SubSeq(k, 1, sck),
        k2 |-> SubSeq(k, sck + 1, sck + hk),
        k3 |-> SubSeq(k, sck + hk + 1, 2 * sck + hk),
        k4 |-> SubSeq(k, 2 * sck + hk + 1, Len(k))]

\* variant of the assertion: N >= H::OutputSize
BlockNewAssertNonStrict(p, n) == n >= p.O

\* assert!(N::to_usize() > H::OutputSize::to_usize())
BlockNewAssertHolds(p, n) == n > p.O

----------------------------------------------------------------------------
(* Inputs *)

SeqsOfLen(bytes, n) == [1..n -> bytes]

Blocks == UNION { SeqsOfLen(BlockBytes, n) : n \in 0..MaxBlockLen }

MasterKeys(p, offsets, steps) ==
    { [i \in 1..KeySize(p) |-> (a + b * i) % ByteMod] :
        a \in offsets, b \in steps }

Threads == DOMAIN block

InitLioness(thr, offsets, steps, blocks) ==
    /\ prim \in Prims
    /\ key \in MasterKeys(prim, offsets, steps)
    /\ cipher = NoCipher
    /\ newStatus = "none"
    /\ adapter = NoCipher
    /\ adapterTry = [N |-> 0, status |-> "none"]
    /\ block \in [thr -> blocks]
    /\ status = [t \in thr |-> "idle"]
    /\ pc = [t \in thr |-> 0]
    /\ op = [t \in thr |-> "none"]
    /\ via = [t \in thr |-> "none"]
    /\ orig = [t \in thr |-> <<>>]
    /\ trace = [t \in thr |-> <<>>]
    /\ mixed = [t \in thr |-> FALSE]
    /\ hist = [t \in thr |-> <<>>]
    /\ left = <<>>
    /\ right = <<>>
    /\ rlog = <<>>

\* one caller
Init == InitLioness({1}, KeyOffsets, KeySteps, Blocks)

----------------------------------------------------------------------------
(* Construction *)

\* <Lioness as NewBlockCipher>::new
New ==
    /\ newStatus = "none"
    /\ IF NewAssertHolds(prim)
       THEN /\ cipher' = LionessNew(prim, key)
            /\ newStatus' = "ok"
       ELSE /\ cipher' = cipher
            /\ newStatus' = "panic"
    /\ UNCHANGED <<prim, key, adapter, adapterTry, block, status, pc, op, via,
                   orig, trace, mixed, hist, roundVars>>

\* <BlockLioness as NewBlockCipher>::new, for block size N = n
BlockNew(n) ==
    /\ adapterTry.status = "none"
    /\ IF BlockNewAssertHolds(prim, n) /\ NewAssertHolds(prim)
       THEN /\ adapter' = [inner |-> LionessNew(prim, key), N |-> n]
            /\ adapterTry' = [N |-> n, status |-> "ok"]
       ELSE /\ adapter' = adapter
            /\ adapterTry' = [N |-> n, status |-> "panic"]
    /\ UNCHANGED <<prim, key, cipher, newStatus, block, status, pc, op, via,
                   orig, trace, mixed, hist, roundVars>>

----------------------------------------------------------------------------
(* Calls *)

Instance(v) == IF v = "block" THEN adapter.inner ELSE cipher

CallLimit == IF Cardinality(Threads) > 1 THEN MaxConcCalls ELSE MaxCalls

Call(t, res) ==
    [op |-> op[t], via |-> via[t], input |-> orig[t], output |-> block[t],
     result |-> res, trace |-> trace[t], mixed |-> mixed[t]]

\* entry of a call: the length check, then the split
Enter(t, o, v) ==
    /\ status[t] = "idle"
    /\ Len(hist[t]) < CallLimit
    /\ IF InvalidBlockLength(prim, block[t])
       THEN /\ hist' = [hist EXCEPT ![t] = Append(@,
                          [op |-> o, via |-> v, input |-> block[t],
                           output |-> block[t],
                           \* the adapter unwraps the Err
                           result |-> IF v = "block" THEN "panic" ELSE "Err",
                           trace |-> <<>>, mixed |-> FALSE])]
            /\ status' = [status EXCEPT ![t] =
                            IF v = "block" THEN "panicked" ELSE "idle"]
            /\ UNCHANGED <<pc, op, via, orig, trace, mixed>>
       ELSE /\ status' = [status EXCEPT ![t] = "running"]
            /\ pc' = [pc EXCEPT ![t] = 1]
            /\ op' = [op EXCEPT ![t] = o]
            /\ via' = [via EXCEPT ![t] = v]
            /\ orig' = [orig EXCEPT ![t] = block[t]]
            /\ trace' = [trace EXCEPT ![t] = <<>>]
            /\ mixed' = [mixed EXCEPT ![t] = FALSE]
            /\ hist' = hist
    /\ UNCHANGED <<prim, key, cipher, newStatus, adapter, adapterTry, block,
                   roundVars>>

\* Lioness::encrypt_block(&self, block)
EncryptBlock(t) == cipher # NoCipher /\ Enter(t, "enc", "lioness")

\* Lioness::decrypt_block(&self, block)
DecryptBlock(t) == cipher # NoCipher /\ Enter(t, "dec", "lioness")

\* <BlockLioness as BlockEncrypt>::encrypt_block(&self, block: &mut Block<Self>)
BlockEncryptBlock(t) ==
    /\ adapter # NoCipher
    /\ Len(block[t]) = adapter.N
    /\ Enter(t, "enc", "block")

\* <BlockLioness as BlockDecrypt>::decrypt_block(&self, block: &mut Block<Self>)
BlockDecryptBlock(t) ==
    /\ adapter # NoCipher
    /\ Len(block[t]) = adapter.N
    /\ Enter(t, "dec", "block")

\* the next of the four round statements of the running call; the fourth
\* is followed by Ok(())
RoundStep(t) ==
    /\ status[t] = "running"
    /\ LET rd == Rounds(op[t])[pc[t]]
           c == Instance(via[t])
           h == split_at_mut(block[t], prim.O)
           others == { u \in Threads : u # t /\ status[u] = "running" }
           nb == Join(ApplyRound(prim, c, rd, h))
           ntr == Append(trace[t], rd)
       IN /\ IF RoundPanics(prim, c, rd, h)
             THEN /\ status' = [status EXCEPT ![t] = "panicked"]
                  /\ hist' = [hist EXCEPT ![t] = Append(@, Call(t, "panic"))]
                  /\ pc' = [pc EXCEPT ![t] = 0]
                  /\ UNCHANGED <<block, op, via, orig, trace, mixed>>
             ELSE /\ block' = [block EXCEPT ![t] = nb]
                  /\ IF pc[t] = Len(Rounds(op[t]))
                     THEN /\ hist' = [hist EXCEPT ![t] = Append(@,
                                [op |-> op[t], via |-> via[t],
                                 input |-> orig[t], output |-> nb,
                                 result |-> "Ok", trace |-> ntr,
                                 mixed |-> mixed[t]])]
                          /\ status' = [status EXCEPT ![t] = "idle"]
                          /\ pc' = [pc EXCEPT ![t] = 0]
                          /\ op' = [op EXCEPT ![t] = "none"]
                          /\ via' = [via EXCEPT ![t] = "none"]
                          /\ orig' = [orig EXCEPT ![t] = <<>>]
                          /\ trace' = [trace EXCEPT ![t] = <<>>]
                          /\ mixed' = [u \in Threads |->
                                         IF u = t THEN FALSE
                                         ELSE IF u \in others THEN TRUE
                                         ELSE mixed[u]]
                     ELSE /\ pc' = [pc EXCEPT ![t] = @ + 1]
                          /\ trace' = [trace EXCEPT ![t] = ntr]
                          /\ mixed' = [u \in Threads |->
                                         IF u \in others THEN TRUE ELSE mixed[u]]
                          /\ UNCHANGED <<status, op, via, orig, hist>>
          /\ IF via[t] = "block"
             THEN /\ adapter' = [adapter EXCEPT !.inner = SelfAfterRound(c, rd, h)]
                  /\ cipher' = cipher
             ELSE /\ cipher' = SelfAfterRound(c, rd, h)
                  /\ adapter' = adapter
    /\ UNCHANGED <<prim, key, newStatus, adapterTry, roundVars>>

Next ==
    \/ New
    \/ \E n \in 0..MaxBlockLen : BlockNew(n)
    \/ \E t \in Threads : EncryptBlock(t)
    \/ \E t \in Threads : DecryptBlock(t)
    \/ \E t \in Threads : BlockEncryptBlock(t)
    \/ \E t \in Threads : BlockDecryptBlock(t)
    \/ \E t \in Threads : RoundStep(t)

Spec == Init /\ [][Next]_vars

----------------------------------------------------------------------------
(* Two callers sharing one instance *)

\* the buffers of the concurrent callers: one per length
ConcBlocks == { [i \in 1..n |-> (85 * i) % ByteMod] : n \in 0..MaxBlockLen }

\* both callers use the key 17, 18, 19, ...
InitConc == InitLioness({1, 2}, {16}, {1}, ConcBlocks)

NextConc ==
    \/ New
    \/ \E t \in Threads : EncryptBlock(t)
    \/ \E t \in Threads : DecryptBlock(t)
    \/ \E t \in Threads : RoundStep(t)

SpecConc == InitConc /\ [][NextConc]_vars

----------------------------------------------------------------------------
(* The two round functions run alone, on halves of the sizes split_at_mut
   yields: left of MacOutputSize bytes, right non-empty *)

InitRound ==
    \* the round functions are reached only through a constructed instance
    /\ prim \in { p \in Prims : NewAssertHolds(p) }
    /\ key = NoKey
    /\ cipher = NoCipher
    /\ newStatus = "none"
    /\ adapter = NoCipher
    /\ adapterTry = [N |-> 0, status |-> "none"]
    /\ block = <<>>
    /\ status = <<>>
    /\ pc = <<>>
    /\ op = <<>>
    /\ via = <<>>
    /\ orig = <<>>
    /\ trace = <<>>
    /\ mixed = <<>>
    /\ hist = <<>>
    /\ left \in SeqsOfLen(BlockBytes, prim.O)
    /\ right \in UNION { SeqsOfLen(BlockBytes, n) : n \in 1..(MaxBlockLen - prim.O) }
    /\ rlog = <<>>

Halted == \E i \in 1..Len(rlog) : rlog[i].panic

\* left_xor_assign_digest(left, right, digest_key)
DigestRound(digest_key) ==
    /\ Len(rlog) < MaxRounds
    /\ ~Halted
    /\ left' = left_xor_assign_digest(prim, left, right, digest_key)
    /\ right' = right
    /\ rlog' = Append(rlog, [fn |-> "digest", key |-> digest_key,
                             left |-> left, right |-> right,
                             skey |-> <<>>, panic |-> FALSE])
    /\ UNCHANGED <<prim, key, lionessVars>>

\* right_xor_assign_stream(left, right, stream_key_half)
StreamRound(stream_key_half) ==
    /\ Len(rlog) < MaxRounds
    /\ ~Halted
    /\ IF StreamKeyPanics(prim, left, stream_key_half)
       THEN /\ right' = right
            /\ rlog' = Append(rlog, [fn |-> "stream", key |-> stream_key_half,
                                     left |-> left, right |-> right,
                                     skey |-> StreamKey(left, stream_key_half),
                                     panic |-> TRUE])
       ELSE /\ right' = right_xor_assign_stream(prim, left, right, stream_key_half)
            /\ rlog' = Append(rlog, [fn |-> "stream", key |-> stream_key_half,
                                     left |-> left, right |-> right,
                                     skey |-> StreamKey(left, stream_key_half),
                                     panic |-> FALSE])
    /\ left' = left
    /\ UNCHANGED <<prim, key, lionessVars>>

NextRound ==
    \/ \E dk \in SeqsOfLen(RoundKeyBytes, prim.M) : DigestRound(dk)
    \/ \E kh \in SeqsOfLen(RoundKeyBytes, prim.S) : StreamRound(kh)

SpecRound == InitRound /\ [][NextRound]_vars

----------------------------------------------------------------------------
(* Properties *)

\* the completed calls, as (thread, index) pairs
Calls == { ti \in Threads \X (1..MaxCalls + 1) : ti[2] <= Len(hist[ti[1]]) }

Entry(ti) == hist[ti[1]][ti[2]]

\* pairs of consecutive completed calls of one thread on its buffer
CallPairs == { ti \in Calls : ti[2] < Len(hist[ti[1]]) }

NextEntry(ti) == hist[ti[1]][ti[2] + 1]

\* C1 -- Round trip: encrypt_block followed by decrypt_block with the same
\* keyed instance on the same buffer, for a block longer than MacOutputSize,
\* returns Ok both times and leaves the buffer equal to the original block.
C1_RoundTrip ==
    \A ti \in CallPairs :
        ( /\ Entry(ti).op = "enc"
          /\ NextEntry(ti).op = "dec"
          /\ NextEntry(ti).via = Entry(ti).via
          /\ Len(Entry(ti).input) > prim.O )
        => /\ Entry(ti).result = "Ok"
           /\ NextEntry(ti).result = "Ok"
           /\ NextEntry(ti).input = Entry(ti).output
           /\ NextEntry(ti).output = Entry(ti).input
           /\ (ti[2] + 1 = Len(hist[ti[1]]) /\ status[ti[1]] = "idle")
                 => block[ti[1]] = Entry(ti).input

\* an encryption that changed the block, undone by the decryption after it
C1_Witness ==
    \E ti \in CallPairs :
        /\ Entry(ti).op = "enc"
        /\ NextEntry(ti).op = "dec"
        /\ Entry(ti).via = "lioness"
        /\ NextEntry(ti).via = "lioness"
        /\ Len(Entry(ti).input) > prim.O
        /\ Entry(ti).output # Entry(ti).input
        /\ NextEntry(ti).result = "Ok"

\* C2 -- Length rejection: for a block with len <= MacOutputSize both
\* encrypt_block and decrypt_block return InvalidBlockLength, run no round
\* function and leave the block unchanged; longer blocks are never rejected.
C2_LengthRejection ==
    /\ \A ti \in Calls :
          Entry(ti).via = "lioness" =>
             /\ (Len(Entry(ti).input) <= prim.O) <=> (Entry(ti).result = "Err")
             /\ Entry(ti).result = "Err" =>
                   /\ Entry(ti).trace = <<>>
                   /\ Entry(ti).output = Entry(ti).input
                   /\ IF ti \in CallPairs
                      THEN NextEntry(ti).input = Entry(ti).input
                      ELSE block[ti[1]] = Entry(ti).input
    /\ \A t \in Threads : status[t] = "running" => Len(block[t]) > prim.O

\* a block of exactly MacOutputSize bytes rejected by encrypt_block and then
\* by decrypt_block
C2_Witness ==
    \E ti \in CallPairs :
        /\ Entry(ti).op = "enc"
        /\ NextEntry(ti).op = "dec"
        /\ Entry(ti).via = "lioness"
        /\ NextEntry(ti).via = "lioness"
        /\ Len(Entry(ti).input) = prim.O
        /\ Entry(ti).result = "Err"
        /\ NextEntry(ti).result = "Err"
        /\ block[ti[1]] = Entry(ti).input

KeySlicesOf(c) ==
    /\ Len(c.k1) = prim.S
    /\ Len(c.k2) = prim.M
    /\ Len(c.k3) = prim.S
    /\ Len(c.k4) = prim.M
    /\ \A i \in 1..prim.S : c.k1[i] = key[i]
    /\ \A i \in 1..prim.M : c.k2[i] = key[prim.S + i]
    /\ \A i \in 1..prim.S : c.k3[i] = key[prim.S + prim.M + i]
    /\ \A i \in 1..prim.M : c.k4[i] = key[2 * prim.S + prim.M + i]
    /\ c.k1 \o c.k2 \o c.k3 \o c.k4 = key

\* C3 -- Key derivation: a constructed instance holds k1 = key[0..S),
\* k2 = key[S..S+M), k3 = key[S+M..2S+M), k4 = key[2S+M..2S+2M): contiguous,
\* in this order, of lengths S, M, S, M, covering the master key exactly once.
C3_KeyDerivation ==
    /\ cipher # NoCipher => KeySlicesOf(cipher)
    /\ adapter # NoCipher => KeySlicesOf(adapter.inner)

\* an instance built from a key of pairwise different bytes, with S # M
C3_Witness ==
    /\ cipher # NoCipher
    /\ prim.S # prim.M
    /\ Len(key) = 2 * (prim.S + prim.M)
    /\ \A i, j \in 1..Len(key) : i # j => key[i] # key[j]

\* C4 -- Non-identity: encrypt_block on a block longer than MacOutputSize
\* returns Ok and leaves the buffer different from the block it was given
\* (with the primitives S and H of this model, for every key and block drawn).
C4_NonIdentity ==
    \A ti \in Calls :
        ( /\ Entry(ti).op = "enc"
          /\ Entry(ti).via = "lioness"
          /\ Len(Entry(ti).input) > prim.O )
        => /\ Entry(ti).result = "Ok"
           /\ Len(Entry(ti).output) = Len(Entry(ti).input)
           /\ Entry(ti).output # Entry(ti).input
           /\ (ti[2] = Len(hist[ti[1]]) /\ status[ti[1]] = "idle")
                 => block[ti[1]] # Entry(ti).input

\* the first call on a buffer holding both byte values, under a key of
\* pairwise different bytes, is an encryption that completed
C4_Witness ==
    /\ \A i, j \in 1..Len(key) : i # j => key[i] # key[j]
    /\ \E t \in Threads :
          /\ Len(hist[t]) = 1
          /\ status[t] = "idle"
          /\ hist[t][1].op = "enc"
          /\ hist[t][1].via = "lioness"
          /\ hist[t][1].result = "Ok"
          /\ \E i, j \in 1..Len(hist[t][1].input) :
                hist[t][1].input[i] # hist[t][1].input[j]
          /\ block[t] = hist[t][1].output

\* C5 -- Primitive-size precondition: construction aborts whenever
\* MacOutputSize < StreamKeySize and succeeds whenever MacOutputSize >=
\* StreamKeySize; every instance that exists satisfies MacOutputSize >=
\* StreamKeySize.
C5_SizePrecondition ==
    /\ newStatus = "panic" => (prim.O < prim.S /\ cipher = NoCipher)
    /\ newStatus = "ok" => (prim.O >= prim.S /\ cipher # NoCipher)
    /\ newStatus = "none" => cipher = NoCipher
    /\ adapterTry.status = "ok" => prim.O >= prim.S
    /\ (adapterTry.status = "panic" /\ adapterTry.N > prim.O) => prim.O < prim.S
    /\ adapter # NoCipher => prim.O >= prim.S

\* a construction that aborted because MacOutputSize < StreamKeySize
C5_Witness ==
    /\ newStatus = "panic"
    /\ adapterTry.status = "panic"
    /\ adapterTry.N > prim.O
    /\ prim.O < prim.S

\* C6 -- Fixed-size adapter: BlockLioness::new aborts unless N >
\* MacOutputSize; on a constructed adapter every encrypt_block and
\* decrypt_block on a block of N bytes performs the Lioness transform and
\* never meets InvalidBlockLength (the unwrap never panics).
C6_AdapterInfallible ==
    /\ adapterTry.status = "ok" => (adapterTry.N > prim.O /\ adapter # NoCipher)
    /\ adapterTry.status # "ok" => adapter = NoCipher
    /\ (adapterTry.status # "none" /\ adapterTry.N <= prim.O)
          => adapterTry.status = "panic"
    /\ \A ti \in Calls :
          Entry(ti).via = "block" =>
             /\ Len(Entry(ti).input) = adapter.N
             /\ Entry(ti).result = "Ok"
             /\ Len(Entry(ti).trace) = 4
             /\ Entry(ti).output =
                   Transform(prim, adapter.inner, Entry(ti).op, Entry(ti).input).block
    /\ \A t \in Threads : status[t] # "panicked"

\* an encryption and a decryption through the adapter, both completed
C6_Witness ==
    \E ti \in CallPairs :
        /\ Entry(ti).via = "block"
        /\ NextEntry(ti).via = "block"
        /\ Entry(ti).op = "enc"
        /\ NextEntry(ti).op = "dec"
        /\ Entry(ti).result = "Ok"
        /\ NextEntry(ti).result = "Ok"
        /\ Len(Entry(ti).input) = adapter.N

\* C7 -- Shared instance: with calls of several threads interleaved round by
\* round on one instance, the subkeys keep their values of construction and
\* every call ends with the result it has when it runs alone.
C7_SharedInstance ==
    /\ cipher # NoCipher => cipher = LionessNew(prim, key)
    /\ \A ti \in Calls :
          /\ Entry(ti).result =
                Transform(prim, LionessNew(prim, key), Entry(ti).op, Entry(ti).input).result
          /\ Entry(ti).output =
                Transform(prim, LionessNew(prim, key), Entry(ti).op, Entry(ti).input).block
          /\ (ti[2] = Len(hist[ti[1]]) /\ status[ti[1]] = "idle")
                => block[ti[1]] = Entry(ti).output

\* two threads whose calls, an encryption and a decryption, each had rounds
\* of the other thread's call run in between
C7_Witness ==
    /\ Cardinality(Threads) > 1
    /\ \A t \in Threads :
          /\ Len(hist[t]) > 0
          /\ hist[t][1].result = "Ok"
          /\ hist[t][1].mixed
    /\ \E t, u \in Threads : hist[t][1].op = "enc" /\ hist[u][1].op = "dec"

\* encrypt_block spelled out: stream(k1), digest(k2), stream(k3), digest(k4)
EncryptSpelledOut(c, b) ==
    LET h == split_at_mut(b, prim.O)
        r1 == right_xor_assign_stream(prim, h.left, h.right, c.k1)
        l2 == left_xor_assign_digest(prim, h.left, r1, c.k2)
        r3 == right_xor_assign_stream(prim, l2, r1, c.k3)
        l4 == left_xor_assign_digest(prim, l2, r3, c.k4)
    IN l4 \o r3

\* decrypt_block spelled out: digest(k4), stream(k3), digest(k2), stream(k1)
DecryptSpelledOut(c, b) ==
    LET h == split_at_mut(b, prim.O)
        l1 == left_xor_assign_digest(prim, h.left, h.right, c.k4)
        r2 == right_xor_assign_stream(prim, l1, h.right, c.k3)
        l3 == left_xor_assign_digest(prim, l1, r2, c.k2)
        r4 == right_xor_assign_stream(prim, l3, r2, c.k1)
    IN l3 \o r4

EncOrder ==
    << [fn |-> "stream", key |-> "k1"], [fn |-> "digest", key |-> "k2"],
       [fn |-> "stream", key |-> "k3"], [fn |-> "digest", key |-> "k4"] >>

DecOrder ==
    << [fn |-> "digest", key |-> "k4"], [fn |-> "stream", key |-> "k3"],
       [fn |-> "digest", key |-> "k2"], [fn |-> "stream", key |-> "k1"] >>

\* C8 -- Round ordering: on a valid block encrypt_block applies exactly
\* stream(k1), digest(k2), stream(k3), digest(k4) and decrypt_block exactly
\* digest(k4), stream(k3), digest(k2), stream(k1); none skipped, repeated or
\* keyed with another subkey.
C8_RoundOrder ==
    /\ \A ti \in Calls :
          (Entry(ti).result = "Ok" /\ Entry(ti).via = "lioness") =>
             IF Entry(ti).op = "enc"
             THEN /\ Entry(ti).trace = EncOrder
                  /\ Entry(ti).output = EncryptSpelledOut(cipher, Entry(ti).input)
             ELSE /\ Entry(ti).trace = DecOrder
                  /\ Entry(ti).output = DecryptSpelledOut(cipher, Entry(ti).input)
    /\ \A t \in Threads :
          status[t] = "running" =>
             trace[t] = SubSeq(IF op[t] = "enc" THEN EncOrder ELSE DecOrder,
                               1, pc[t] - 1)

\* a completed encryption followed by a completed decryption
C8_Witness ==
    \E ti \in CallPairs :
        /\ Entry(ti).via = "lioness"
        /\ NextEntry(ti).via = "lioness"
        /\ Entry(ti).op = "enc"
        /\ NextEntry(ti).op = "dec"
        /\ Len(Entry(ti).trace) = 4
        /\ Len(NextEntry(ti).trace) = 4

----------------------------------------------------------------------------
(* Properties of the round functions run alone *)

\* the halves after application i
After(i) ==
    IF i = Len(rlog) THEN [left |-> left, right |-> right]
    ELSE [left |-> rlog[i + 1].left, right |-> rlog[i + 1].right]

\* left halves that agree with l on the first StreamKeySize bytes
SamePrefix(l) ==
    { l2 \in SeqsOfLen(BlockBytes, Len(l)) :
        SubSeq(l2, 1, prim.S) = SubSeq(l, 1, prim.S) }

\* C9 -- Truncating XOR: with MacOutputSize >= StreamKeySize the derived
\* stream key is left[i] XOR stream_key_half[i] for i < StreamKeySize, of
\* length StreamKeySize, so keying the stream cipher does not fail; left
\* halves that agree on the first StreamKeySize bytes give the same keystream
\* and the same updated right half.
C9_TruncatingXor ==
    \A i \in 1..Len(rlog) :
        (rlog[i].fn = "stream" /\ prim.O >= prim.S) =>
           /\ ~rlog[i].panic
           /\ Len(rlog[i].skey) = prim.S
           /\ \A j \in 1..prim.S :
                 rlog[i].skey[j] = ByteXor(rlog[i].left[j], rlog[i].key[j])
           /\ \A l2 \in SamePrefix(rlog[i].left) :
                 /\ Keystream(prim, StreamKey(l2, rlog[i].key), Len(rlog[i].right))
                       = Keystream(prim, rlog[i].skey, Len(rlog[i].right))
                 /\ right_xor_assign_stream(prim, l2, rlog[i].right, rlog[i].key)
                       = After(i).right

\* a stream round on a left half longer than the stream key, which has a
\* sibling differing only behind the first StreamKeySize bytes
C9_Witness ==
    \E i \in 1..Len(rlog) :
        /\ rlog[i].fn = "stream"
        /\ prim.O > prim.S
        /\ ~rlog[i].panic
        /\ After(i).right # rlog[i].right
        /\ \E l2 \in SamePrefix(rlog[i].left) : l2 # rlog[i].left

\* C10 -- Frame and involution: left_xor_assign_digest changes only left,
\* right_xor_assign_stream changes only right, lengths are kept, and either
\* one applied twice in a row with the same subkey restores the block.
C10_SelfInverse ==
    /\ \A i \in 1..Len(rlog) :
          ~rlog[i].panic =>
             /\ Len(After(i).left) = Len(rlog[i].left)
             /\ Len(After(i).right) = Len(rlog[i].right)
             /\ rlog[i].fn = "digest" => After(i).right = rlog[i].right
             /\ rlog[i].fn = "stream" => After(i).left = rlog[i].left
    /\ \A i \in 1..(Len(rlog) - 1) :
          ( /\ rlog[i].fn = rlog[i + 1].fn
            /\ rlog[i].key = rlog[i + 1].key
            /\ ~rlog[i + 1].panic )
          => /\ After(i + 1).left = rlog[i].left
             /\ After(i + 1).right = rlog[i].right

\* each round function applied twice in a row with one subkey, the first
\* application having changed its half
C10_Witness ==
    /\ \E i \in 1..(Len(rlog) - 1) :
          /\ rlog[i].fn = "digest"
          /\ rlog[i + 1].fn = "digest"
          /\ rlog[i].key = rlog[i + 1].key
          /\ After(i).left # rlog[i].left
    /\ \E i \in 1..(Len(rlog) - 1) :
          /\ rlog[i].fn = "stream"
          /\ rlog[i + 1].fn = "stream"
          /\ rlog[i].key = rlog[i + 1].key
          /\ ~rlog[i + 1].panic
          /\ After(i).right # rlog[i].right

====
